---- MODULE Spec2Model ----
(***************************************************************************)
(* StarEditor (src/library/stareditor.cpp): the in-place editor that lets  *)
(* the user set a star rating with the mouse.                              *)
(*                                                                         *)
(* Only horizontal geometry matters to the editor, so a rectangle is       *)
(* modelled by its width.  The two comparisons against 5% of the star      *)
(* strip (starsWidth * 0.05, a double in the source) are modelled exactly  *)
(* with both sides multiplied by 20: the double product starsWidth * 0.05   *)
(* is the integer starsWidth / 20 whenever that is an integer, and is at   *)
(* least 0.05 away from every integer otherwise.                           *)
(***************************************************************************)
EXTENDS Integers, Sequences, FiniteSets

VARIABLES
    m_starRating,   \* [starCount, maxStarCount, width]: the StarRating value object
    m_starCount,    \* the last confirmed star count
    m_styleOption,  \* [rect, state]: the QStyleOptionViewItem kept by the editor
    m_pTableView,   \* TRUE iff the hosting view pointer is not null
    widgetRect,     \* rect().width(): the widget's current width
    isSelected,     \* selectionModel->isSelected(m_index)
    updateCount,    \* update() calls (redraw requests) made by the last pointer event
    updatePending,  \* a redraw was requested and no paint has run since
    editingFinished,\* number of emissions of the editingFinished signal
    event,          \* the pointer event handled last, with what the mapper returned
    running,        \* FALSE once the process was killed by a trap
    painter,        \* [clip, brush, pen]: the QPainter last handed to renderHelper
    drawn           \* what the last renderHelper call put on the surface

vars == <<m_starRating, m_starCount, m_styleOption, m_pTableView, widgetRect,
          isSelected, updateCount, updatePending, editingFinished, event, running,
          painter, drawn>>

\* the drawing side of the state
display == <<painter, drawn>>

----------------------------------------------------------------------------
(* Bounds of the model *)

\* the editor: star strips of 1..EdMaxStars stars, 1..EdMaxStarsWidth wide
EdMaxStars == 3
EdMaxStarsWidth == 2
\* widget and cell widths 0..EdMaxWidth, pointer x in -1..EdMaxWidth
EdMaxWidth == 3
\* at most MaxSignals emissions of editingFinished are followed
MaxSignals == 2
\* the mapper alone: strips of 1..MapMaxStars stars, 1..MapMaxStarsWidth wide,
\* cells 0..MapMaxWidth wide, pointer x in -MapMaxX..MapMaxX
MapMaxStars == 5
MapMaxStarsWidth == 21
MapMaxWidth == 26
MapMaxX == 28

----------------------------------------------------------------------------
(* Constants and arithmetic of the source *)

kMinStarCount == 0

kInvalidStarCount == kMinStarCount - 1

Max(a, b) == IF a >= b THEN a ELSE b

\* C++ integer division: the quotient is truncated toward zero (b # 0)
TruncDiv(a, b) ==
    IF b = 0 THEN 0
    ELSE IF (a >= 0) = (b > 0) \/ a = 0
         THEN (IF a >= 0 THEN a ELSE -a) \div (IF b >= 0 THEN b ELSE -b)
         ELSE -((IF a >= 0 THEN a ELSE -a) \div (IF b >= 0 THEN b ELSE -b))

----------------------------------------------------------------------------
(* StarEditor::starAtPosition *)

\* int xOffset = std::max((m_styleOption.rect.width() - starsWidth) / 2, 0)
xOffset(rectWidth, starsWidth) == Max(TruncDiv(rectWidth - starsWidth, 2), 0)

\* x -= std::max(xOffset, 0)
shiftedX(x, rectWidth, starsWidth) == x - Max(xOffset(rectWidth, starsWidth), 0)

\* leftVoid20 with the margin granted to every cell, however narrow
leftVoid20_always(rectWidth, starsWidth) == -starsWidth

\* leftVoid20 with the margin never granted
leftVoid20_never(rectWidth, starsWidth) == 0

\* 20 * leftVoid, with leftVoid = xOffset > starsWidth * 0.05 ? starsWidth * -0.05 : 0
leftVoid20(rectWidth, starsWidth) ==
    IF 20 * xOffset(rectWidth, starsWidth) > starsWidth THEN -starsWidth ELSE 0

\* x < leftVoid || x >= starsWidth, on the shifted x
outsideStars(x, rectWidth, starsWidth) ==
    \/ 20 * shiftedX(x, rectWidth, starsWidth) < leftVoid20(rectWidth, starsWidth)
    \/ shiftedX(x, rectWidth, starsWidth) >= starsWidth

\* x < starsWidth * 0.05, on the shifted x
nearLeftEdge(x, rectWidth, starsWidth) ==
    20 * shiftedX(x, rectWidth, starsWidth) < starsWidth

\* starsWidth / m_starRating.maxStarCount(): the integer width of one star slot
slotWidth(starsWidth, maxStarCount) == TruncDiv(starsWidth, maxStarCount)

\* the call reaches the division of line 139 with a zero divisor
dividesByZero(x, rectWidth, starsWidth, maxStarCount) ==
    /\ ~outsideStars(x, rectWidth, starsWidth)
    /\ ~nearLeftEdge(x, rectWidth, starsWidth)
    /\ slotWidth(starsWidth, maxStarCount) = 0

\* x / slotWidth: one quotient, or, the divisor being zero, whatever the
\* build leaves in the register (-1 .. maxStarCount stand for every int:
\* they reach each branch of the range test that follows)
quotients(sx, slot, maxStarCount) ==
    IF slot = 0 THEN -1 .. maxStarCount ELSE {TruncDiv(sx, slot)}

\* if (star <= 0 || star > maxStarCount) return 0; return star
starOrZero(star, maxStarCount) ==
    IF star <= 0 \/ star > maxStarCount THEN 0 ELSE star

\* the values the call can return (one value, except after a division by zero)
starAtPosition(x, rectWidth, starsWidth, maxStarCount) ==
    IF outsideStars(x, rectWidth, starsWidth) THEN {kInvalidStarCount}
    ELSE IF nearLeftEdge(x, rectWidth, starsWidth) THEN {0}
    ELSE { starOrZero(q + 1, maxStarCount) :
             q \in quotients(shiftedX(x, rectWidth, starsWidth),
                             slotWidth(starsWidth, maxStarCount), maxStarCount) }

----------------------------------------------------------------------------
(* StarEditor::renderHelper *)

\* a QPainter as QPainter(this) makes it: no clipping, no brush, a solid pen
DefaultPainter == [clip |-> -1, brush |-> "NoBrush", pen |-> "SolidLine"]

\* the hosting view handed to renderHelper: a null pointer, a view whose
\* style() is null, or a view with a style
Views == {"null", "noStyle", "styled"}

\* QPalette::ColorGroup cg of the option's state flags
colorGroup(state) ==
    LET cg == IF "Enabled" \in state THEN "Normal" ELSE "Disabled"
    IN  IF cg = "Normal" /\ "Active" \notin state THEN "Inactive" ELSE cg

\* the brush set for the stars: option.palette.color(cg, role)
starBrush(state) ==
    [group |-> colorGroup(state),
     role |-> IF "Selected" \in state THEN "HighlightedText" ELSE "Text"]

\* style->drawControl(CE_ItemViewItem, ...) is called
drawsChrome(view) == view = "styled"

\* the painter when pStarRating->paint returns: clipped to the cell, with the
\* brush of the stars, and with the pen StarRating::paint drew the stars with
paintedPainter(option) ==
    [clip |-> option.rect, brush |-> starBrush(option.state), pen |-> "NoPen"]

\* PainterScope: painter->save() in the constructor, painter->restore() in
\* the destructor: the painter is left as it was found
PainterScope(saved, used) == saved

\* renderHelper without its PainterScope
renderHelper_noScope(p, view, option, starCount) ==
    /\ drawn' = [type |-> "stars", starCount |-> starCount,
                 brush |-> starBrush(option.state), clip |-> option.rect,
                 chrome |-> drawsChrome(view)]
    /\ painter' = paintedPainter(option)

\* renderHelper choosing between Normal and Disabled only
renderHelper_noInactive(p, view, option, starCount) ==
    /\ drawn' = [type |-> "stars", starCount |-> starCount,
                 brush |-> [group |-> IF "Enabled" \in option.state
                                      THEN "Normal" ELSE "Disabled",
                            role |-> starBrush(option.state).role],
                 clip |-> option.rect,
                 chrome |-> drawsChrome(view)]
    /\ painter' = PainterScope(p, paintedPainter(option))

\* StarEditor::renderHelper(painter, pTableView, option, pStarRating)
renderHelper(p, view, option, starCount) ==
    /\ drawn' = [type |-> "stars", starCount |-> starCount,
                 brush |-> starBrush(option.state), clip |-> option.rect,
                 chrome |-> drawsChrome(view)]
    /\ painter' = PainterScope(p, paintedPainter(option))

----------------------------------------------------------------------------
(* The editor *)

\* the constructor with m_starCount left out of the initializer list
Init_unset ==
    /\ \E n \in 1 .. EdMaxStars, w \in 1 .. EdMaxStarsWidth :
           m_starRating = [starCount |-> kMinStarCount, maxStarCount |-> n, width |-> w]
    /\ m_starCount \in kMinStarCount .. m_starRating.maxStarCount
    /\ m_pTableView \in BOOLEAN
    /\ isSelected \in (IF m_pTableView THEN BOOLEAN ELSE {FALSE})
    /\ \E r \in 0 .. EdMaxWidth :
           m_styleOption = [rect |-> r,
                            state |-> {"Enabled", "Active"}
                                        \cup (IF isSelected THEN {"Selected"} ELSE {})]
    /\ widgetRect = m_styleOption.rect
    /\ updateCount = 0
    /\ updatePending = FALSE
    /\ editingFinished = 0
    /\ event = [type |-> "construct"]
    /\ running = TRUE
    /\ painter = DefaultPainter
    /\ drawn = [type |-> "nothing"]

\* StarEditor::StarEditor.  The option handed to the constructor is the view's
\* option for the cell: it carries the cell's selection at that time.  The
\* widget starts with the cell's geometry.  Without a hosting view there is
\* no selection model, and no selection.
Init ==
    /\ \E n \in 1 .. EdMaxStars, w \in 1 .. EdMaxStarsWidth :
           m_starRating = [starCount |-> kMinStarCount, maxStarCount |-> n, width |-> w]
    /\ m_starCount = kMinStarCount
    /\ m_pTableView \in BOOLEAN
    /\ isSelected \in (IF m_pTableView THEN BOOLEAN ELSE {FALSE})
    /\ \E r \in 0 .. EdMaxWidth :
           m_styleOption = [rect |-> r,
                            state |-> {"Enabled", "Active"}
                                        \cup (IF isSelected THEN {"Selected"} ELSE {})]
    /\ widgetRect = m_styleOption.rect
    /\ updateCount = 0
    /\ updatePending = FALSE
    /\ editingFinished = 0
    /\ event = [type |-> "construct"]
    /\ running = TRUE
    /\ painter = DefaultPainter
    /\ drawn = [type |-> "nothing"]

\* QWidget::update(): request a redraw
update ==
    /\ updateCount' = 1
    /\ updatePending' = TRUE

\* StarRating::setStarCount
setStarCount(star) == m_starRating' = [m_starRating EXCEPT !.starCount = star]

\* StarEditor::resetRating: back to the last confirmed value, and redraw
resetRating ==
    /\ setStarCount(m_starCount)
    /\ update

\* StarEditor::setStarRating: the owner hands the cell's rating to the new
\* editor, before the editor is shown
setStarRating ==
    /\ running
    /\ UNCHANGED display
    /\ event.type = "construct"
    /\ drawn.type = "nothing"
    /\ \E r \in kMinStarCount .. m_starRating.maxStarCount :
           /\ setStarCount(r)
           /\ m_starCount' = r
    /\ event' = [type |-> "setStarRating"]
    /\ UNCHANGED <<m_styleOption, m_pTableView, widgetRect, isSelected,
                   updateCount, updatePending, editingFinished, running>>

\* applyStar with the sentinel test off by one: the sentinel is stored
applyStar_storesSentinel(star) ==
    IF star < kInvalidStarCount
    THEN resetRating
    ELSE IF star # m_starRating.starCount
         THEN setStarCount(star) /\ update
         ELSE updateCount' = 0 /\ UNCHANGED <<m_starRating, updatePending>>

\* applyStar with the redraw requested whether or not the count changed
applyStar_alwaysUpdates(star) ==
    IF star <= kInvalidStarCount
    THEN resetRating
    ELSE setStarCount(star) /\ update

\* applyStar storing a new count without requesting the redraw
applyStar_noUpdate(star) ==
    IF star <= kInvalidStarCount
    THEN resetRating
    ELSE /\ setStarCount(star)
         /\ updateCount' = 0
         /\ UNCHANGED updatePending

\* the body of mouseMoveEvent once starAtPosition has returned star
applyStar(star) ==
    IF star <= kInvalidStarCount
    THEN resetRating
    ELSE IF star # m_starRating.starCount
         THEN setStarCount(star) /\ update
         ELSE updateCount' = 0 /\ UNCHANGED <<m_starRating, updatePending>>

\* mouseMoveEvent refreshing the option's rectangle from the widget before it
\* maps the pointer
mouseMoveEvent_refreshesRect ==
    /\ running
    /\ UNCHANGED display
    /\ m_styleOption' = [m_styleOption EXCEPT !.rect = widgetRect]
    /\ \E x \in -1 .. EdMaxWidth :
         \/ /\ dividesByZero(x, widgetRect, m_starRating.width,
                             m_starRating.maxStarCount)
            /\ running' = FALSE
            /\ event' = [type |-> "mouseMove", cellWidth |-> widgetRect,
                         star |-> kInvalidStarCount, trap |-> TRUE]
            /\ updateCount' = 0
            /\ UNCHANGED <<m_starRating, updatePending>>
         \/ \E star \in starAtPosition(x, widgetRect, m_starRating.width,
                                       m_starRating.maxStarCount) :
              /\ applyStar(star)
              /\ event' = [type |-> "mouseMove", cellWidth |-> widgetRect,
                            star |-> star, trap |-> FALSE]
              /\ UNCHANGED running
    /\ UNCHANGED <<m_starCount, m_pTableView, widgetRect, isSelected, editingFinished>>

\* StarEditor::mouseMoveEvent
mouseMoveEvent ==
    /\ running
    /\ UNCHANGED display
    /\ \E x \in -1 .. EdMaxWidth :
         \/ /\ dividesByZero(x, m_styleOption.rect, m_starRating.width,
                             m_starRating.maxStarCount)
            /\ running' = FALSE
            /\ event' = [type |-> "mouseMove", cellWidth |-> m_styleOption.rect,
                         star |-> kInvalidStarCount, trap |-> TRUE]
            /\ updateCount' = 0
            /\ UNCHANGED <<m_starRating, updatePending>>
         \/ \E star \in starAtPosition(x, m_styleOption.rect, m_starRating.width,
                                       m_starRating.maxStarCount) :
              /\ applyStar(star)
              /\ event' = [type |-> "mouseMove", cellWidth |-> m_styleOption.rect,
                            star |-> star, trap |-> FALSE]
              /\ UNCHANGED running
    /\ UNCHANGED <<m_starCount, m_styleOption, m_pTableView, widgetRect, isSelected,
                   editingFinished>>

\* leaveEvent clearing the rating instead of restoring the confirmed one
leaveEvent_clears ==
    /\ running
    /\ UNCHANGED display
    /\ setStarCount(kMinStarCount)
    /\ update
    /\ event' = [type |-> "leave"]
    /\ UNCHANGED <<m_starCount, m_styleOption, m_pTableView, widgetRect, isSelected,
                   editingFinished, running>>

\* leaveEvent ending the session: it emits editingFinished as a release does
leaveEvent_finishes ==
    /\ running
    /\ UNCHANGED display
    /\ editingFinished < MaxSignals
    /\ resetRating
    /\ editingFinished' = editingFinished + 1
    /\ event' = [type |-> "leave"]
    /\ UNCHANGED <<m_starCount, m_styleOption, m_pTableView, widgetRect, isSelected,
                   running>>

\* StarEditor::leaveEvent
leaveEvent ==
    /\ running
    /\ UNCHANGED display
    /\ resetRating
    /\ event' = [type |-> "leave"]
    /\ UNCHANGED <<m_starCount, m_styleOption, m_pTableView, widgetRect, isSelected,
                   editingFinished, running>>

\* mouseReleaseEvent restoring the confirmed rating before it emits
mouseReleaseEvent_resets ==
    /\ running
    /\ UNCHANGED display
    /\ editingFinished < MaxSignals
    /\ resetRating
    /\ editingFinished' = editingFinished + 1
    /\ event' = [type |-> "mouseRelease"]
    /\ UNCHANGED <<m_starCount, m_styleOption, m_pTableView, widgetRect,
                   isSelected, running>>

\* StarEditor::mouseReleaseEvent
mouseReleaseEvent ==
    /\ running
    /\ UNCHANGED display
    /\ editingFinished < MaxSignals
    /\ editingFinished' = editingFinished + 1
    /\ event' = [type |-> "mouseRelease"]
    /\ updateCount' = 0
    /\ UNCHANGED <<m_starRating, m_starCount, m_styleOption, m_pTableView, widgetRect,
                   isSelected, updatePending, running>>

\* the state flags of m_styleOption after the two |= of paintEvent
paintedState ==
    m_styleOption.state \cup {"MouseOver"}
        \cup (IF m_pTableView /\ isSelected THEN {"Selected"} ELSE {})

\* StarEditor::paintEvent: the option is refreshed, then a painter made for
\* this paint is handed to renderHelper
paintEvent ==
    /\ running
    /\ m_styleOption' = [rect |-> widgetRect, state |-> paintedState]
    /\ renderHelper(DefaultPainter, IF m_pTableView THEN "styled" ELSE "null",
                    m_styleOption', m_starRating.starCount)
    /\ updatePending' = FALSE
    /\ UNCHANGED <<m_starRating, m_starCount, m_pTableView, widgetRect, isSelected,
                   updateCount, editingFinished, event, running>>

\* the hosting view resizes the widget: rect() changes
resizeEvent ==
    /\ running
    /\ UNCHANGED display
    /\ \E w \in 0 .. EdMaxWidth : w # widgetRect /\ widgetRect' = w
    /\ UNCHANGED <<m_starRating, m_starCount, m_styleOption, m_pTableView, isSelected,
                   updateCount, updatePending, editingFinished, event, running>>

\* the user changes the selection of the hosting view
selectionChanged ==
    /\ running
    /\ UNCHANGED display
    /\ m_pTableView
    /\ isSelected' = ~isSelected
    /\ UNCHANGED <<m_starRating, m_starCount, m_styleOption, m_pTableView, widgetRect,
                   updateCount, updatePending, editingFinished, event, running>>

Next ==
    \/ setStarRating
    \/ mouseMoveEvent
    \/ leaveEvent
    \/ mouseReleaseEvent
    \/ paintEvent
    \/ resizeEvent
    \/ selectionChanged

Spec == Init /\ [][Next]_vars

----------------------------------------------------------------------------
(* The mapper alone: one call of starAtPosition on an editor whose star     *)
(* strip and cell width are drawn from the Map bounds                       *)

MapInit ==
    /\ \E n \in 1 .. MapMaxStars, w \in 1 .. MapMaxStarsWidth :
           m_starRating = [starCount |-> kMinStarCount, maxStarCount |-> n, width |-> w]
    /\ m_starCount = kMinStarCount
    /\ \E r \in 0 .. MapMaxWidth :
           m_styleOption = [rect |-> r, state |-> {"Enabled", "Active"}]
    /\ m_pTableView = FALSE
    /\ widgetRect = m_styleOption.rect
    /\ isSelected = FALSE
    /\ updateCount = 0
    /\ updatePending = FALSE
    /\ editingFinished = 0
    /\ event = [type |-> "construct"]
    /\ running = TRUE
    /\ painter = DefaultPainter
    /\ drawn = [type |-> "nothing"]

\* int star = starAtPosition(x), and nothing else
callStarAtPosition ==
    /\ running
    /\ UNCHANGED display
    /\ event.type = "construct"
    /\ \E x \in -MapMaxX .. MapMaxX :
         \/ /\ dividesByZero(x, m_styleOption.rect, m_starRating.width,
                             m_starRating.maxStarCount)
            /\ running' = FALSE
            /\ event' = [type |-> "starAtPosition", x |-> x,
                         star |-> kInvalidStarCount, trap |-> TRUE]
         \/ \E star \in starAtPosition(x, m_styleOption.rect, m_starRating.width,
                                       m_starRating.maxStarCount) :
              /\ event' = [type |-> "starAtPosition", x |-> x, star |-> star,
                           trap |-> FALSE]
              /\ UNCHANGED running
    /\ UNCHANGED <<m_starRating, m_starCount, m_styleOption, m_pTableView, widgetRect,
                   isSelected, updateCount, updatePending, editingFinished>>

MapNext == callStarAtPosition

MapSpec == MapInit /\ [][MapNext]_vars

----------------------------------------------------------------------------
(* The render helper alone: one call of the static renderHelper, as a       *)
(* delegate makes it, with its own painter, any view, any state flags       *)

StateFlags == {"Enabled", "Active", "Selected", "MouseOver"}

Painters ==
    [clip : {-1, EdMaxWidth}, brush : {"NoBrush", "Caller"}, pen : {"SolidLine", "Caller"}]

RenderInit ==
    /\ \E n \in 1 .. EdMaxStars, w \in 1 .. EdMaxStarsWidth, c \in 0 .. EdMaxStars :
           /\ c <= n
           /\ m_starRating = [starCount |-> c, maxStarCount |-> n, width |-> w]
    /\ m_starCount = kMinStarCount
    /\ \E r \in 0 .. EdMaxWidth, f \in SUBSET StateFlags :
           m_styleOption = [rect |-> r, state |-> f]
    /\ m_pTableView = FALSE
    /\ widgetRect = m_styleOption.rect
    /\ isSelected = FALSE
    /\ updateCount = 0
    /\ updatePending = FALSE
    /\ editingFinished = 0
    /\ event = [type |-> "construct"]
    /\ running = TRUE
    /\ painter \in Painters
    /\ drawn = [type |-> "nothing"]

\* StarEditor::renderHelper(&painter, pTableView, option, &starRating), and
\* nothing else
callRenderHelper ==
    /\ event.type = "construct"
    /\ \E view \in Views :
           /\ renderHelper(painter, view, m_styleOption, m_starRating.starCount)
           /\ event' = [type |-> "renderHelper", view |-> view, painter |-> painter]
    /\ UNCHANGED <<m_starRating, m_starCount, m_styleOption, m_pTableView, widgetRect,
                   isSelected, updateCount, updatePending, editingFinished, running>>

RenderNext == callRenderHelper

RenderSpec == RenderInit /\ [][RenderNext]_vars

----------------------------------------------------------------------------
(* Properties of starAtPosition, on the call recorded in event (MapSpec).   *)
(* They restate the geometry from the pointer x, the cell width, the width  *)
(* of the star strip and the number of stars, without the operators above.  *)

CallDone == event.type = "starAtPosition"

CallStarsWidth == m_starRating.width

CallMaxStars == m_starRating.maxStarCount

\* the centering offset max((cellWidth - starsWidth) / 2, 0), an int
CenteringOffset ==
    IF m_styleOption.rect > CallStarsWidth
    THEN (m_styleOption.rect - CallStarsWidth) \div 2
    ELSE 0

\* the shifted pointer position of pointer position x
Shifted(x) == x - CenteringOffset

\* 20 * leftVoid
LeftVoidTimes20 == IF 20 * CenteringOffset > CallStarsWidth THEN -CallStarsWidth ELSE 0

\* 0.05 * starsWidth <= shifted x < starsWidth
InStarZone(x) ==
    /\ 20 * Shifted(x) >= CallStarsWidth
    /\ Shifted(x) < CallStarsWidth

\* C2: for a shifted position x with 0.05*starsWidth <= x < starsWidth the
\* mapper returns a value in [1, maxStarCount], and no smaller position of
\* that zone gets a larger value.  Stated on the calls whose star slot is at
\* least one pixel wide (starsWidth >= maxStarCount); C3 is about the others.
C2_StarZoneInRangeAndMonotone ==
    (CallDone /\ InStarZone(event.x) /\ CallStarsWidth >= CallMaxStars) =>
        /\ ~event.trap
        /\ event.star \in 1 .. CallMaxStars
        /\ \A x1 \in -MapMaxX .. event.x :
              InStarZone(x1) =>
                  \A s1 \in starAtPosition(x1, m_styleOption.rect, CallStarsWidth,
                                           CallMaxStars) : s1 <= event.star

\* C3: every call returns, and returns the sentinel or a value in
\* [0, maxStarCount]; none divides by zero.
C3_TotalNoDivisionByZero ==
    CallDone =>
        /\ ~event.trap
        /\ event.star \in {kInvalidStarCount} \cup (0 .. CallMaxStars)

\* C4: for a shifted position x with x < leftVoid or x >= starsWidth the
\* mapper returns the sentinel.
C4_OutsideIsSentinel ==
    (/\ CallDone
     /\ \/ 20 * Shifted(event.x) < LeftVoidTimes20
        \/ Shifted(event.x) >= CallStarsWidth)
    => (~event.trap /\ event.star = kInvalidStarCount)

\* a call left of the stars of a centered strip, and one right of the strip
C4_Witness ==
    /\ CallDone
    /\ CenteringOffset > 0
    /\ LeftVoidTimes20 < 0
    /\ 20 * Shifted(event.x) < LeftVoidTimes20
    /\ event.x >= 0
    /\ event.star = kInvalidStarCount

\* C5: for a shifted position x with leftVoid <= x < 0.05*starsWidth the
\* mapper returns exactly 0.
C5_LeftEdgeIsZero ==
    (/\ CallDone
     /\ 20 * Shifted(event.x) >= LeftVoidTimes20
     /\ 20 * Shifted(event.x) < CallStarsWidth)
    => (~event.trap /\ event.star = 0)

\* a call in the margin left of the stars, answered 0
C5_Witness ==
    /\ CallDone
    /\ Shifted(event.x) < 0
    /\ 20 * Shifted(event.x) >= LeftVoidTimes20
    /\ event.star = 0
    /\ ~event.trap

\* the slot of exact width starsWidth / maxStarCount that holds shifted x >= 0:
\* the k with (k-1) * starsWidth <= x * maxStarCount < k * starsWidth
ExactSlot(sx, starsWidth, maxStarCount) == ((sx * maxStarCount) \div starsWidth) + 1

\* the five positions of the example of C6 are mapped as the example says
C6_ExampleHolds ==
    /\ starAtPosition(0, 100, 100, 5) = {0}
    /\ starAtPosition(3, 100, 100, 5) = {0}
    /\ starAtPosition(25, 100, 100, 5) = {2}
    /\ starAtPosition(99, 100, 100, 5) = {5}
    /\ starAtPosition(150, 100, 100, 5) = {kInvalidStarCount}

\* C6: for a shifted position x with 0.05*starsWidth <= x < starsWidth the
\* mapper returns the index of the equal-width slot that holds x; and with
\* starsWidth = 100, maxStarCount = 5, offset 0: 0 -> 0, 3 -> 0, 25 -> 2,
\* 99 -> 5, 150 -> sentinel.  Stated, as C2, on starsWidth >= maxStarCount.
C6_ExactSlotIndex ==
    /\ C6_ExampleHolds
    /\ (CallDone /\ InStarZone(event.x) /\ CallStarsWidth >= CallMaxStars) =>
          /\ ~event.trap
          /\ event.star = ExactSlot(Shifted(event.x), CallStarsWidth, CallMaxStars)

\* on strips whose width is a multiple of the number of stars the mapper does
\* return the exact slot, within [1, maxStarCount]
C6_ExactSlotWhenDivisible ==
    (CallDone /\ InStarZone(event.x) /\ CallStarsWidth % CallMaxStars = 0) =>
        /\ ~event.trap
        /\ event.star = ExactSlot(Shifted(event.x), CallStarsWidth, CallMaxStars)
        /\ event.star \in 1 .. CallMaxStars

----------------------------------------------------------------------------
(* Properties of the editor (Spec) *)

\* the last pointer event was a move for which the mapper returned a count
MovedToStar ==
    /\ event.type = "mouseMove"
    /\ ~event.trap
    /\ event.star >= kMinStarCount

\* the last pointer event was a move for which the mapper returned the sentinel
MovedOutside ==
    /\ event.type = "mouseMove"
    /\ ~event.trap
    /\ event.star = kInvalidStarCount

\* C1: the displayed star count is always in [0, maxStarCount]; the sentinel
\* is never stored in it.
C1_DisplayedInRange ==
    /\ m_starRating.starCount \in 0 .. m_starRating.maxStarCount
    /\ m_starRating.starCount # kInvalidStarCount

\* the mapper returned the sentinel to a move and a rating is displayed
C1_Witness ==
    /\ MovedOutside
    /\ m_starRating.starCount \in 1 .. m_starRating.maxStarCount

\* C7: after a pointer-leave, or a pointer-move answered by the sentinel, the
\* displayed star count is the last confirmed value; pointer-moves never
\* change the confirmed value.
C7_ResetToConfirmed ==
    /\ []((event.type = "leave" \/ MovedOutside)
            => m_starRating.starCount = m_starCount)
    /\ [][(event'.type \in {"mouseMove", "leave"}) => m_starCount' = m_starCount]_vars

\* the pointer left an editor whose confirmed rating is not 0
C7_Witness ==
    /\ event.type = "leave"
    /\ m_starCount > kMinStarCount
    /\ m_starRating.starCount = m_starCount

\* C8: once a pointer-release was delivered, editingFinished has been emitted
\* exactly once, however many releases were delivered.
C8_EmittedExactlyOnce ==
    /\ editingFinished <= 1
    /\ event.type = "mouseRelease" => editingFinished = 1

\* C9: a pointer-release leaves the displayed star count, the confirmed value
\* and the style option unchanged; released after a move to a star position
\* s, the editor displays s when it emits editingFinished.
C9_ReleaseKeepsPreview ==
    [][(editingFinished' # editingFinished) =>
          /\ UNCHANGED <<m_starRating, m_starCount, m_styleOption>>
          /\ MovedToStar => m_starRating'.starCount = event.star]_vars

\* released while a preview other than the confirmed rating was displayed
C9_Witness ==
    /\ event.type = "mouseRelease"
    /\ editingFinished = 1
    /\ m_starRating.starCount > kMinStarCount
    /\ m_starRating.starCount # m_starCount

\* C10: a pointer-move for which the mapper returns the count already
\* displayed requests no redraw and leaves the displayed count unchanged.
\* (A step that keeps a pointer-move in event, the option, the widget and the
\* frame, and that does not serve a pending redraw, is a pointer-move.)
C10_NoRedrawWhenUnchanged ==
    [][(/\ event'.type = "mouseMove"
        /\ ~event'.trap
        /\ event'.star = m_starRating.starCount
        /\ UNCHANGED <<m_styleOption, widgetRect, isSelected, display, m_starCount,
                       editingFinished>>
        /\ (updatePending => updatePending'))
       => (updateCount' = 0 /\ UNCHANGED <<m_starRating, updatePending>>)]_vars

\* a move onto the star already displayed: no redraw was requested
C10_Witness ==
    /\ MovedToStar
    /\ event.star = m_starRating.starCount
    /\ event.star > kMinStarCount
    /\ updateCount = 0

\* C11: editingFinished is emitted by a pointer-release only, never by a
\* pointer-move, a pointer-leave or a paint; and a pointer-move onto a star
\* position that follows a pointer-leave sets the displayed star count to the
\* count of that position.
C11_LeaveDoesNotFinish ==
    [][/\ (editingFinished' # editingFinished) => event'.type = "mouseRelease"
       /\ (/\ event.type = "leave"
           /\ event'.type = "mouseMove"
           /\ ~event'.trap
           /\ event'.star >= kMinStarCount)
          => m_starRating'.starCount = event'.star]_vars

\* the pointer has left, nothing was emitted, and a move onto a star is
\* still accepted
C11_Witness ==
    /\ event.type = "leave"
    /\ editingFinished = 0
    /\ ENABLED (/\ mouseMoveEvent
                /\ event'.star > kMinStarCount
                /\ m_starRating'.starCount = event'.star
                /\ m_starRating'.starCount # m_starRating.starCount)

\* C12: at every paint of an editor that has a hosting view, the Selected
\* flag of the style option handed to the render helper is set exactly when
\* the selection model reports the cell selected at that paint.
C12_SelectedFollowsSelectionModel ==
    [][(/\ m_pTableView
        /\ UNCHANGED <<event, widgetRect, isSelected, m_starRating>>
        /\ paintEvent)
       => (("Selected" \in m_styleOption'.state) <=> isSelected)]_vars

\* C16: until the first event is delivered to a new editor, its last
\* confirmed star count and its displayed star count are kMinStarCount.
C16_StartsAtMinimum ==
    event.type = "construct" =>
        /\ m_starCount = kMinStarCount
        /\ m_starRating.starCount = kMinStarCount

\* a new editor, not painted yet, that no event has reached
C16_Witness ==
    /\ event.type = "construct"
    /\ "MouseOver" \notin m_styleOption.state
    /\ ~updatePending
    /\ editingFinished = 0
    /\ m_starCount = kMinStarCount

\* the frame on screen shows another count than the editor displays
StaleFrame ==
    /\ drawn.type = "stars"
    /\ drawn.starCount # m_starRating.starCount

\* C17: no stale frame. In every reachable state, if the displayed star count
\* differs from the count drawn by the most recent paint then a redraw is
\* pending; every pointer event that changes the displayed count requests a
\* redraw in the same step; and each paint draws the displayed count current
\* at the time it executes.
C17_NoStaleFrame ==
    /\ [](StaleFrame => updatePending)
    /\ [][/\ (/\ m_starRating'.starCount # m_starRating.starCount
               /\ event'.type \in {"mouseMove", "leave"})
              => (updateCount' = 1 /\ updatePending')
          /\ (drawn' # drawn \/ (updatePending /\ ~updatePending'))
              => /\ drawn'.type = "stars"
                 /\ drawn'.starCount = m_starRating.starCount
                 /\ m_starRating' = m_starRating
                 /\ ~updatePending']_vars

\* C17 witness: a pointer event changed the displayed count after a paint, so
\* the frame on screen is stale and its redraw is pending
C17_Witness ==
    /\ StaleFrame
    /\ updatePending
    /\ updateCount = 1
    /\ event.type \in {"mouseMove", "leave"}

\* C18: the style option's rectangle is written only by paint, which sets it
\* to the widget's bounds; pointer-move, pointer-leave and pointer-release
\* leave it unchanged; the cell width a pointer-move maps with is the one the
\* option held before the move (from the most recent paint, or from the
\* construction option), whatever the widget's size has become.
C18_RectWrittenOnlyByPaint ==
    [][/\ m_styleOption'.rect # m_styleOption.rect
           => /\ m_styleOption'.rect = widgetRect
              /\ widgetRect' = widgetRect
              /\ drawn'.type = "stars"
              /\ drawn'.clip = widgetRect
              /\ event' = event
       /\ event' # event
           => /\ event'.type \in {"mouseMove", "leave", "mouseRelease", "setStarRating"}
              /\ m_styleOption' = m_styleOption
       /\ (event' # event /\ event'.type = "mouseMove")
           => event'.cellWidth = m_styleOption.rect]_vars

\* C18 witness: the widget was resized and not yet repainted, and a
\* pointer-move mapped with the width the option still holds
C18_Witness ==
    /\ event.type = "mouseMove"
    /\ ~event.trap
    /\ widgetRect # m_styleOption.rect
    /\ event.cellWidth = m_styleOption.rect
    /\ drawn.type = "stars"
    /\ drawn.clip = m_styleOption.rect

----------------------------------------------------------------------------
(* Properties of renderHelper, on the call recorded in event (RenderSpec) *)

RenderDone == event.type = "renderHelper"

\* C13: the color group is Disabled when Enabled is unset, Inactive when
\* Enabled is set and Active is unset, Normal otherwise; the brush is that
\* group's HighlightedText color when Selected is set, its Text color
\* otherwise.
C13_BrushOfStateFlags ==
    RenderDone =>
        /\ drawn.type = "stars"
        /\ ("Enabled" \notin m_styleOption.state) => drawn.brush.group = "Disabled"
        /\ ("Enabled" \in m_styleOption.state /\ "Active" \notin m_styleOption.state)
              => drawn.brush.group = "Inactive"
        /\ ("Enabled" \in m_styleOption.state /\ "Active" \in m_styleOption.state)
              => drawn.brush.group = "Normal"
        /\ ("Selected" \in m_styleOption.state) => drawn.brush.role = "HighlightedText"
        /\ ("Selected" \notin m_styleOption.state) => drawn.brush.role = "Text"

\* the stars of a selected cell of an inactive window were drawn
C13_Witness ==
    /\ RenderDone
    /\ m_styleOption.state = {"Enabled", "Selected"}
    /\ drawn.type = "stars"
    /\ drawn.brush = [group |-> "Inactive", role |-> "HighlightedText"]

\* C14: when renderHelper has returned, the painter's clip region, brush and
\* pen are what they were before the call, with or without a view or a
\* style; the style option and the star count are unchanged.
C14_RenderHelperRestores ==
    /\ [](RenderDone => painter = event.painter)
    /\ [][callRenderHelper => UNCHANGED <<m_styleOption, m_starRating>>]_vars

\* stars were drawn through a caller's painter that had a clip, a brush and
\* a pen of its own, into a cell of another width, with no view
C14_Witness ==
    /\ RenderDone
    /\ event.view = "null"
    /\ drawn.type = "stars"
    /\ event.painter = [clip |-> EdMaxWidth, brush |-> "Caller", pen |-> "Caller"]
    /\ drawn.clip # event.painter.clip
    /\ painter = event.painter

----------------------------------------------------------------------------
(* Purity of starAtPosition (MapSpec) *)

\* the call left the displayed count, the confirmed count and the style
\* option as the constructor made them
CallChangedNothing ==
    /\ m_starRating.starCount = kMinStarCount
    /\ m_starCount = kMinStarCount
    /\ m_styleOption.state = {"Enabled", "Active"}
    /\ m_styleOption.rect = widgetRect

C15_PureWhenSlotNotZero ==
    (CallDone /\ CallStarsWidth >= CallMaxStars) =>
        /\ ~event.trap
        /\ starAtPosition(event.x, m_styleOption.rect, CallStarsWidth, CallMaxStars)
              = {event.star}
        /\ CallChangedNothing

====
